---- MODULE Spec2Model ----
(***************************************************************************)
(* Model of the decision-and-execution engine of main_bot.py: the news     *)
(* poller, execute_trade tasks, the guard functions can_trade and          *)
(* register_trade, the closed-trade monitor and the broker they talk to.   *)
(* One step of the model is what one coroutine does between two awaits of  *)
(* the single asyncio event loop.                                          *)
(***************************************************************************)
EXTENDS Integers, Sequences, FiniteSets, TLC

\* ---------------------------------------------------------------- bounds
NumTasks == 2
MaxNews == 2
MaxTicks == 2
MaxDeals == 2
\* seconds one runs.retrieve call may take on top of the sleep before it
MaxLag == 1

\* ------------------------------------------------------ program constants
MAX_TRADES_PER_DAY == 10
COOLDOWN_AFTER_LOSS == 600
MIN_LIQUIDITY_HOUR == 6
MAX_SPREAD_POINTS == 30
MIN_NEWS_IMPORTANCE == 2
RUN_TIMEOUT == 60
POLL_INTERVAL == 1

\* ------------------------------------------------------------------ clock
\* datetime.utcnow() in seconds since midnight of day 0.
SecondsPerHour == 60 * 60
SecondsPerDay == 24 * SecondsPerHour
TickStep == COOLDOWN_AFTER_LOSS
\* The process starts shortly before the liquidity hour or shortly before
\* midnight.
MorningStart == MIN_LIQUIDITY_HOUR * SecondsPerHour - TickStep
EveningStart == SecondsPerDay - TickStep
StartTimes == {MorningStart, EveningStart}
Clock == UNION {{s + k * TickStep : k \in 0..MaxTicks} : s \in StartTimes}
Date(t) == t \div SecondsPerDay
Hour(t) == (t % SecondsPerDay) \div SecondsPerHour
Dates == {Date(t) : t \in Clock}

None == 0 - 1
Symbols == {"EURUSD", "XAUUSD"}
TradeActions == {"BUY", "SELL"}
Profits == {0 - 5, 0, 5}
Tasks == 1..NumTasks

VARIABLES
    now,              \* the UTC clock
    open_positions,   \* set of symbols (line 117)
    trade_counter,    \* dict date -> count (line 573)
    cooldown_until,   \* None or a timestamp (line 572)
    RISK_PERCENT,     \* global risk percent (line 60)
    tasks,            \* execute_trade tasks created by create_task
    newsPc,           \* where polygon_news_poller / process_news_item is
    feed,             \* news items the feed has still to publish
    positions,        \* broker: open positions of the engine per symbol
    deals,            \* broker: deal history, ticket = index
    monPc,            \* where monitor_closed_trades is
    mon_rest,         \* tickets of the fetched history still to iterate
    mon_cur,          \* ticket whose notification is awaited, 0 if none
    last_ticket_set,  \* local set of monitor_closed_trades
    closeNotified,    \* ticket -> close notifications sent
    closeLogged,      \* ticket -> close records appended to the trade log
    orders_sent,      \* date -> number of mt5.order_send calls
    dup_rejected,     \* attempts that returned at line 342 as duplicates
    ct_ret,           \* last direct can_trade call and what it returned
    regs,             \* date -> number of register_trade calls
    news_importance,  \* importance of the item process_news_item holds
    openLogged,       \* open records appended to the trade log
    accesses,         \* accesses to the guarded globals made so far
    news_call,        \* the news filter alone: item and what was logged
    run,              \* get_trade_signal alone: the run and its return
    size_call         \* calculate_position_size alone: inputs, return

vars == <<now, open_positions, trade_counter, cooldown_until, RISK_PERCENT,
          tasks, newsPc, feed, positions, deals, monPc, mon_rest, mon_cur,
          last_ticket_set, closeNotified, closeLogged, orders_sent,
          dup_rejected, ct_ret, regs, news_importance, openLogged,
          accesses, news_call, run, size_call>>

guardVars == <<open_positions, trade_counter, cooldown_until>>
newsVars == <<RISK_PERCENT, newsPc, feed, news_importance>>
brokerVars == <<positions, deals>>
monVars == <<monPc, mon_rest, mon_cur, last_ticket_set, closeNotified,
             closeLogged>>
apiVars == <<ct_ret, regs>>
obsVars == <<orders_sent, dup_rejected>>
traceVars == <<openLogged, accesses>>
fnVars == <<news_call, run, size_call>>

\* A task's action (BUY or SELL) only selects the ask or the bid price and
\* the order type; the task record does not keep it.
\* tier is the risk percent the importance of the task's news item selects.
IdleTask == [pc |-> "idle", symbol |-> "", path |-> "", tier |-> 0,
             acq |-> FALSE, ct |-> FALSE, mc |-> FALSE, sent |-> FALSE]
NoCall == [date |-> None, symbol |-> "", regs |-> 0, cool |-> FALSE,
           ret |-> FALSE]

\* The functions checked alone are not called.
NoNewsCall == [pc |-> "off"]
NoRun == [pc |-> "off"]
NoSizeCall == [pc |-> "off"]

\* history is the deal history of the last two days at the start.
InitCore(start, items, cooldowns, history) ==
    /\ now = start
    /\ open_positions = {}
    /\ trade_counter = <<>>
    /\ cooldown_until \in cooldowns
    /\ RISK_PERCENT = 10
    /\ tasks = [t \in Tasks |-> IdleTask]
    /\ newsPc = "idle"
    /\ feed = items
    /\ positions = [s \in Symbols |-> 0]
    /\ deals \in history
    /\ monPc = "poll"
    /\ mon_rest = <<>>
    /\ mon_cur = 0
    /\ last_ticket_set = {}
    /\ closeNotified = <<>>
    /\ closeLogged = <<>>
    /\ orders_sent = [d \in Dates |-> 0]
    /\ dup_rejected = 0
    /\ ct_ret = NoCall
    /\ regs = [d \in Dates |-> 0]
    /\ news_importance = 0
    /\ openLogged = 0
    /\ accesses = {}

InitWith(start, items, cooldowns, history) ==
    /\ InitCore(start, items, cooldowns, history)
    /\ news_call = NoNewsCall
    /\ run = NoRun
    /\ size_call = NoSizeCall

InitAt(start, items, cooldowns) == InitWith(start, items, cooldowns, {<<>>})

Init == InitAt(MorningStart, MaxNews, {None})

\* Time passes between any two steps; the clock never goes backward.
Tick ==
    /\ now + TickStep \in Clock
    /\ now' = now + TickStep
    /\ UNCHANGED <<guardVars, newsVars, tasks, brokerVars, monVars,
                   obsVars, apiVars, traceVars, fnVars>>

\* ------------------------------------------------------- guard functions
\* can_trade(symbol): the dict and cooldown_until (declared global there)
\* after the call, and the value returned.
can_trade_nocap(tc, cd, n) ==
    LET today == Date(n)
        tc1 == IF today \in DOMAIN tc THEN tc ELSE (today :> 0)
    IN  [counter |-> tc1, cooldown |-> cd,
         ret |-> IF tc1[today] > MAX_TRADES_PER_DAY THEN FALSE
                 ELSE IF cd # None /\ n < cd THEN FALSE
                 ELSE TRUE]

can_trade_nocooldown(tc, cd, n) ==
    LET today == Date(n)
        tc1 == IF today \in DOMAIN tc THEN tc ELSE (today :> 0)
    IN  [counter |-> tc1, cooldown |-> cd,
         ret |-> IF tc1[today] >= MAX_TRADES_PER_DAY THEN FALSE ELSE TRUE]

can_trade_clears(tc, cd, n) ==
    LET today == Date(n)
        tc1 == IF today \in DOMAIN tc THEN tc ELSE (today :> 0)
    IN  [counter |-> tc1,
         cooldown |-> IF cd # None /\ n >= cd THEN None ELSE cd,
         ret |-> IF tc1[today] >= MAX_TRADES_PER_DAY THEN FALSE
                 ELSE IF cd # None /\ n < cd THEN FALSE
                 ELSE TRUE]

can_trade(tc, cd, n) ==
    LET today == Date(n)
        tc1 == IF today \in DOMAIN tc THEN tc ELSE (today :> 0)
    IN  [counter |-> tc1, cooldown |-> cd,
         ret |-> IF tc1[today] >= MAX_TRADES_PER_DAY THEN FALSE
                 ELSE IF cd # None /\ n < cd THEN FALSE
                 ELSE TRUE]

\* register_trade(): the dict after the call.
register_trade(tc, n) ==
    LET today == Date(n)
        tc1 == IF today \in DOMAIN tc THEN tc ELSE (today :> 0)
    IN  [tc1 EXCEPT ![today] = @ + 1]

\* Which global each function touches, and whether open_positions_lock is
\* held at that point.  Only the two with-blocks of execute_trade take it.
Access(by, field, locked) == [by |-> by, field |-> field, locked |-> locked]
ExecuteTradeAccesses == {Access("execute_trade", "open_positions", TRUE)}
CanTradeAccesses ==
    {Access("can_trade", f, FALSE) : f \in {"trade_counter", "cooldown_until"}}
RegisterTradeAccesses == {Access("register_trade", "trade_counter", FALSE)}
MonitorAccesses == {Access("monitor_closed_trades", "cooldown_until", FALSE)}

\* The test-and-insert under open_positions_lock.
AcquireNoTest(s, op) == [ok |-> TRUE, set |-> op \cup {s}]

Acquire(s, op) == [ok |-> s \notin op, set |-> op \cup {s}]

\* The finally clause: open_positions.discard(symbol).
ReleaseSkipped(s, op) == op

Release(s, op) == op \ {s}

\* -------------------------------------------- calculate_position_size
\* round(num / den) of Python for num >= 0 and den > 0: to the nearest
\* integer, a tie to the even one.
RoundHalfEven(num, den) ==
    LET q == num \div den
        r == num % den
    IN  IF 2 * r < den THEN q
        ELSE IF 2 * r > den THEN q + 1
        ELSE IF q % 2 = 0 THEN q ELSE q + 1

\* The two if statements of lines 306-311.
ClampVolumeMinOnly(v, lo, hi) == IF v < lo THEN lo ELSE v

ClampVolume(v, lo, hi) ==
    LET raised == IF v < lo THEN lo ELSE v
    IN  IF raised > hi THEN hi ELSE raised

\* What the terminal answers and what the caller passes; the quantities
\* are whole numbers (money, points and lots in integer units).
NominalSize == [account |-> TRUE, info |-> TRUE, balance |-> 10000,
                risk |-> 5, sl_pips |-> 20, tick_value |-> 1,
                tick_size |-> 1, point |-> 1, volume_step |-> 1,
                volume_min |-> 1, volume_max |-> 24]
SizeInputs ==
    {[NominalSize EXCEPT !.account = FALSE],
     [NominalSize EXCEPT !.info = FALSE]}
    \cup {[NominalSize EXCEPT
             !.balance = b, !.risk = rp, !.sl_pips = sl, !.tick_value = tv,
             !.tick_size = ts, !.point = pt, !.volume_step = st,
             !.volume_min = lo, !.volume_max = hi] :
            b \in {1000, 10000}, rp \in {2, 5, 10}, sl \in {0, 20, 30},
            tv \in {0, 1}, ts \in {0, 1, 2}, pt \in {0, 1},
            st \in {0, 1, 2, 4}, lo \in {1, 2, 4}, hi \in {2, 10, 24}}

NoVolume == [kind |-> "none", volume |-> 0]
\* The sizing as it would be if a zero stop distance or a zero value per
\* point fell back to the broker's minimum volume.
calculate_position_size_defaults(a) ==
    IF ~a.account \/ ~a.info THEN NoVolume
    ELSE IF a.tick_size = 0 \/ a.point = 0 THEN NoVolume
    ELSE IF a.tick_value = 0 \/ a.sl_pips = 0
    THEN [kind |-> "volume", volume |-> a.volume_min]
    ELSE IF a.volume_step = 0 THEN [kind |-> "raise", volume |-> 0]
    ELSE LET num == a.balance * a.risk * a.tick_size
             den == 100 * a.sl_pips * a.tick_value * a.point * a.volume_step
             stepped == RoundHalfEven(num, den) * a.volume_step
         IN  [kind |-> "volume",
              volume |-> ClampVolume(stepped, a.volume_min, a.volume_max)]

\* calculate_position_size: None, a ZeroDivisionError, or the volume.
\* lot_size / lot_step is
\*   balance * risk / 100 / (sl_pips * tick_value * point / tick_size) / step.
calculate_position_size(a) ==
    IF ~a.account \/ ~a.info THEN NoVolume
    ELSE IF a.tick_size = 0 \/ a.point = 0 THEN NoVolume
    ELSE IF a.tick_value = 0 \/ a.sl_pips = 0 THEN NoVolume
    ELSE IF a.volume_step = 0 THEN [kind |-> "raise", volume |-> 0]
    ELSE LET num == a.balance * a.risk * a.tick_size
             den == 100 * a.sl_pips * a.tick_value * a.point * a.volume_step
             stepped == RoundHalfEven(num, den) * a.volume_step
         IN  [kind |-> "volume",
              volume |-> ClampVolume(stepped, a.volume_min, a.volume_max)]

\* ------------------------------------------------------- execute_trade
\* What the broker terminal answers during one attempt.
NominalEnv == [mcTick |-> TRUE, mcInfo |-> TRUE, point |-> 1,
               spread |-> MAX_SPREAD_POINTS, info |-> TRUE, atr |-> TRUE,
               tick |-> TRUE, volume |-> "ok", result |-> "done",
               tick_size |-> 1, tick_value |-> 1, sl_pips |-> 20]
\* An attempt stops at the first answer that is not the nominal one and
\* asks for nothing after it, so the answers with at most one of them off
\* the nominal cover every path.
Env ==
    {NominalEnv}
    \cup {[NominalEnv EXCEPT ![f] = FALSE] :
             f \in {"mcTick", "mcInfo", "info", "atr", "tick"}}
    \cup {[NominalEnv EXCEPT !.point = 0],
          [NominalEnv EXCEPT !.spread = MAX_SPREAD_POINTS + 1]}
    \cup {[NominalEnv EXCEPT !.volume = v] : v \in {"none", "zero"}}
    \cup {[NominalEnv EXCEPT ![f] = 0] :
             f \in {"tick_size", "tick_value", "sl_pips"}}
    \cup {[NominalEnv EXCEPT !.result = r] : r \in {"none", "rejected"}}

\* "true", "false", or "raise" for the ZeroDivisionError of a zero point.
check_market_conditions(n, env) ==
    IF Hour(n) < MIN_LIQUIDITY_HOUR THEN "false"
    ELSE IF ~env.mcTick \/ ~env.mcInfo THEN "false"
    ELSE IF env.point = 0 THEN "raise"
    ELSE IF env.spread > MAX_SPREAD_POINTS THEN "false"
    ELSE "true"

\* The arguments and terminal answers of the calculate_position_size call
\* of the attempt; sl_pips is 0 when the ATR is 0.
SizeArgs(env) ==
    [NominalSize EXCEPT !.account = (env.volume # "none"),
                        !.risk = RISK_PERCENT, !.sl_pips = env.sl_pips,
                        !.tick_value = env.tick_value,
                        !.tick_size = env.tick_size, !.point = env.point]
\* Whether the attempt has a volume to submit: "ok", "none" (None was
\* returned) or "zero" (the volume came out as 0).
VolumeKind(env) ==
    IF calculate_position_size(SizeArgs(env)).kind # "volume" THEN "none"
    ELSE env.volume

\* The exit path of an attempt, given what the three gates answered.
ExecutePathNoMarketGate(acq, ct, mc, env) ==
    IF ~acq THEN "duplicate"
    ELSE IF ~ct THEN "limit"
    ELSE IF mc = "raise" THEN "exception"
    ELSE IF ~env.info THEN "no_symbol"
    ELSE IF ~env.atr THEN "no_atr"
    ELSE IF ~env.tick THEN "no_tick"
    ELSE IF VolumeKind(env) \in {"none", "zero"} THEN "no_volume"
    ELSE "send_" \o env.result

ExecutePath(acq, ct, mc, env) ==
    IF ~acq THEN "duplicate"
    ELSE IF ~ct THEN "limit"
    ELSE IF mc = "raise" THEN "exception"
    ELSE IF mc = "false" THEN "market"
    ELSE IF ~env.info THEN "no_symbol"
    ELSE IF ~env.atr THEN "no_atr"
    ELSE IF ~env.tick THEN "no_tick"
    ELSE IF VolumeKind(env) \in {"none", "zero"} THEN "no_volume"
    ELSE "send_" \o env.result

SentPaths == {"send_none", "send_done", "send_rejected"}
\* Paths on which calculate_position_size was called.
SizedPaths == {"no_volume"} \cup SentPaths
\* Paths that return inside the try block without reaching an await.
ReturnPaths == {"limit", "market"}

\* The attempt holds its membership: it is suspended inside the try block.
Holding(t) == tasks[t].pc = "await"

\* Open records log_trade_result appends when the attempt ends.
OpenRecordsAnyResult(path) == IF path \in SentPaths THEN 1 ELSE 0

OpenRecords(path) == IF path = "send_done" THEN 1 ELSE 0

\* open_positions after the first step of an attempt: a duplicate returns
\* before the try statement, the other returns run the finally clause.
SetAfterStartDuplicateReleases(a, path, s, op) ==
    IF ~a.ok THEN Release(s, op)
    ELSE IF path \in ReturnPaths THEN Release(s, a.set)
    ELSE a.set

SetAfterStart(a, path, s, op) ==
    IF ~a.ok THEN op
    ELSE IF path \in ReturnPaths THEN Release(s, a.set)
    ELSE a.set

\* execute_trade from its first line to its first await (or its return),
\* with env what the terminal answers.
ExecStartWith(t, env) ==
    /\ tasks[t].pc = "created"
    \* the history of the model holds at most MaxDeals deals
    /\ env.result = "done" => Len(deals) < MaxDeals
    /\ LET s == tasks[t].symbol
           a == Acquire(s, open_positions)
           c == can_trade(trade_counter, cooldown_until, now)
           ct == a.ok /\ c.ret
           mc == IF ct THEN check_market_conditions(now, env) ELSE "false"
           path == ExecutePath(a.ok, ct, mc, env)
           sent == path \in SentPaths
       IN  /\ open_positions' = SetAfterStart(a, path, s, open_positions)
           /\ trade_counter' = IF a.ok THEN c.counter ELSE trade_counter
           /\ cooldown_until' = IF a.ok THEN c.cooldown ELSE cooldown_until
           /\ dup_rejected' = dup_rejected + IF a.ok THEN 0 ELSE 1
           /\ tasks' = [tasks EXCEPT ![t] =
                 IF path \in ReturnPaths \cup {"duplicate"}
                 THEN IdleTask
                 ELSE [@ EXCEPT !.pc = "await", !.path = path,
                                !.tier = 0, !.acq = a.ok, !.ct = ct,
                                !.mc = (mc = "true"), !.sent = sent]]
           /\ orders_sent' = IF sent
                 THEN [orders_sent EXCEPT ![Date(now)] = @ + 1]
                 ELSE orders_sent
           /\ positions' = IF path = "send_done"
                 THEN [positions EXCEPT ![s] = @ + 1] ELSE positions
           /\ deals' = IF path = "send_done"
                 THEN Append(deals, [entry |-> 0, profit |-> 0])
                 ELSE deals
           /\ accesses' = accesses \cup ExecuteTradeAccesses
                 \cup IF a.ok THEN CanTradeAccesses ELSE {}
    /\ UNCHANGED <<now, newsVars, monVars, apiVars, openLogged, fnVars>>

ExecStart(t) == \E env \in Env : ExecStartWith(t, env)

\* The awaited send_telegram_message returned: the rest of the attempt,
\* ending in the finally clause.
ExecResume(t) ==
    /\ tasks[t].pc = "await"
    /\ tasks' = [tasks EXCEPT ![t] = IdleTask]
    /\ open_positions' = Release(tasks[t].symbol, open_positions)
    /\ openLogged' = openLogged + OpenRecords(tasks[t].path)
    /\ accesses' = accesses \cup ExecuteTradeAccesses
    /\ UNCHANGED <<now, trade_counter, cooldown_until, newsVars, brokerVars,
                   monVars, obsVars, apiVars, fnVars>>

\* ---------------------------------------------------- process_news_item
\* A news item as the filter sees it: whether the lowered title holds a
\* blacklist / whitelist keyword, its importance and its type.
IMPORTANT_NEWS_TYPES == {"economic", "earnings", "central_bank", "macro"}
NominalNews == [bl |-> FALSE, wl |-> TRUE, importance |-> 3, type |-> ""]
\* The items the feed publishes: the filter stops at its first matching
\* rule, so the items with at most one property off the nominal cover its
\* outcomes.
NewsItems ==
    {NominalNews,
     [NominalNews EXCEPT !.bl = TRUE],
     [NominalNews EXCEPT !.wl = FALSE]}
    \cup {[NominalNews EXCEPT !.importance = i] : i \in {1, 2}}
    \cup {[NominalNews EXCEPT !.type = ty] : ty \in {"economic", "sports"}}

FilterReasonWhitelistFirst(n) ==
    IF ~n.wl THEN "not in whitelist"
    ELSE IF n.bl THEN "blacklist"
    ELSE IF n.importance < MIN_NEWS_IMPORTANCE THEN "impact"
    ELSE IF n.type # "" /\ n.type \notin IMPORTANT_NEWS_TYPES THEN "type"
    ELSE "accept"

FilterReason(n) ==
    IF n.bl THEN "blacklist"
    ELSE IF ~n.wl THEN "not in whitelist"
    ELSE IF n.importance < MIN_NEWS_IMPORTANCE THEN "impact"
    ELSE IF n.type # "" /\ n.type \notin IMPORTANT_NEWS_TYPES THEN "type"
    ELSE "accept"

dynamic_risk_percent(n) ==
    IF n.importance = 3 THEN 10 ELSE IF n.importance = 2 THEN 5 ELSE 2

\* What get_trade_signal returns: None or (action, symbol, reason).
NoSignal == [action |-> "NONE", symbol |-> ""]
Signals == {NoSignal} \cup [action : {"BUY", "SELL", "SKIP"}, symbol : Symbols]

FreeSlots == {t \in Tasks : tasks[t].pc = "idle"}
FreeSlot == CHOOSE t \in FreeSlots : \A u \in FreeSlots : t <= u

\* The poller as it would run if its next poll could come before a newly
\* created task takes its first step.
PollNewsEager(n) ==
    /\ newsPc = "idle"
    /\ feed > 0
    /\ feed' = feed - 1
    /\ IF FilterReason(n) = "accept"
          THEN /\ RISK_PERCENT' = dynamic_risk_percent(n)
               /\ news_importance' = n.importance
               /\ newsPc' = "signal"
          ELSE UNCHANGED <<RISK_PERCENT, news_importance, newsPc>>
    /\ UNCHANGED <<now, guardVars, tasks, brokerVars, monVars, obsVars,
                   apiVars, traceVars, fnVars>>

\* The poller fetched a new item (its id differs from the last one) and
\* process_news_item ran to its return or to the await of get_trade_signal.
\* A task made by create_task takes its first step before the poller's
\* sleep(2) ends.
PollNews(n) ==
    /\ newsPc = "idle"
    /\ feed > 0
    /\ \A t \in Tasks : tasks[t].pc # "created"
    /\ feed' = feed - 1
    /\ IF FilterReason(n) = "accept"
          THEN /\ RISK_PERCENT' = dynamic_risk_percent(n)
               /\ news_importance' = n.importance
               /\ newsPc' = "signal"
          ELSE UNCHANGED <<RISK_PERCENT, news_importance, newsPc>>
    /\ UNCHANGED <<now, guardVars, tasks, brokerVars, monVars, obsVars,
                   apiVars, traceVars, fnVars>>

\* The dispatch as it would be with the test of line 533 alone: every
\* signal that is not None starts an attempt.
SignalReturnAnyAction(sig) ==
    /\ newsPc = "signal"
    /\ newsPc' = "idle"
    /\ news_importance' = 0
    /\ IF sig # NoSignal
          THEN /\ FreeSlots # {}
               /\ tasks' = [tasks EXCEPT ![FreeSlot] =
                     [IdleTask EXCEPT
                        !.pc = "created", !.symbol = sig.symbol,
                        !.tier = dynamic_risk_percent(
                                    [importance |-> news_importance])]]
          ELSE UNCHANGED tasks
    /\ UNCHANGED <<now, guardVars, RISK_PERCENT, feed, brokerVars, monVars,
                   obsVars, apiVars, traceVars, fnVars>>

\* get_trade_signal returned; a BUY or SELL signal is dispatched as a task.
SignalReturn(sig) ==
    /\ newsPc = "signal"
    /\ newsPc' = "idle"
    /\ news_importance' = 0
    /\ IF sig.action \in TradeActions
          THEN /\ FreeSlots # {}
               /\ tasks' = [tasks EXCEPT ![FreeSlot] =
                     [IdleTask EXCEPT
                        !.pc = "created", !.symbol = sig.symbol,
                        !.tier = dynamic_risk_percent(
                                    [importance |-> news_importance])]]
          ELSE UNCHANGED tasks
    /\ UNCHANGED <<now, guardVars, RISK_PERCENT, feed, brokerVars, monVars,
                   obsVars, apiVars, traceVars, fnVars>>

\* process_news_item raised (a title that is not a string, an importance
\* that does not compare, a failing log_news, a failing create_task): the
\* except clause of line 541 logs it and the call returns to the poller.
ProcessNewsRaises ==
    /\ \/ /\ newsPc = "idle"
          /\ feed > 0
          /\ \A t \in Tasks : tasks[t].pc # "created"
          /\ feed' = feed - 1
          /\ UNCHANGED <<newsPc, news_importance>>
       \/ /\ newsPc = "signal"
          /\ newsPc' = "idle"
          /\ news_importance' = 0
          /\ feed' = feed
    /\ UNCHANGED <<now, guardVars, RISK_PERCENT, tasks, brokerVars, monVars,
                   obsVars, apiVars, traceVars, fnVars>>

\* ------------------------------------------------------------- broker
\* A position of the engine is closed (stop, target or by hand): the
\* history gains a closing deal with the realized profit.
BrokerClose(s, p) ==
    /\ positions[s] > 0
    /\ Len(deals) < MaxDeals
    /\ positions' = [positions EXCEPT ![s] = @ - 1]
    /\ deals' = Append(deals, [entry |-> 1, profit |-> p])
    /\ UNCHANGED <<now, guardVars, newsVars, tasks, monVars, obsVars,
                   apiVars, traceVars, fnVars>>

\* ------------------------------------------------ monitor_closed_trades
\* deal.type is BUY or SELL for every deal of the model.
IsClosing(deal) == deal.entry = 1

RECURSIVE FirstNew(_, _)
\* The rest of the fetched history from its first closing deal whose
\* ticket is not in seen (empty when there is none).
FirstNew(rest, seen) ==
    IF rest = <<>> THEN <<>>
    ELSE IF IsClosing(deals[Head(rest)]) /\ Head(rest) \notin seen THEN rest
    ELSE FirstNew(Tail(rest), seen)

\* One more record or notification for ticket k.
Count(f, k) == IF k \in DOMAIN f THEN f[k] ELSE 0
Bump(f, k) == [j \in DOMAIN f \cup {k} |-> Count(f, j) + IF j = k THEN 1 ELSE 0]

\* The set after last_ticket_set.add(deal.ticket).
SeenAfterForgets(seen, k) == seen

SeenAfter(seen, k) == seen \cup {k}

\* cooldown_until after a newly observed closing deal with this profit.
CooldownAfterNonPositive(cd, profit, n) ==
    IF profit <= 0 THEN n + COOLDOWN_AFTER_LOSS ELSE cd

CooldownAfter(cd, profit, n) ==
    IF profit < 0 THEN n + COOLDOWN_AFTER_LOSS ELSE cd

\* The for loop over the fetched deals, up to the next await (the
\* notification of a newly observed closing deal) or to its end.
MonitorLoop(rest) ==
    LET r == FirstNew(rest, last_ticket_set)
    IN  IF r = <<>>
        THEN /\ monPc' = "sleep5"
             /\ mon_rest' = <<>>
             /\ mon_cur' = 0
             /\ UNCHANGED <<last_ticket_set, cooldown_until, closeNotified,
                            accesses>>
        ELSE LET k == Head(r)
             IN  /\ last_ticket_set' = SeenAfter(last_ticket_set, k)
                 /\ cooldown_until' =
                        CooldownAfter(cooldown_until, deals[k].profit, now)
                 /\ closeNotified' = Bump(closeNotified, k)
                 /\ accesses' = accesses
                        \cup IF deals[k].profit < 0 THEN MonitorAccesses ELSE {}
                 /\ monPc' = "notify"
                 /\ mon_cur' = k
                 /\ mon_rest' = Tail(r)

\* The poll as it would be without the except clause of line 701: the
\* exception ends the coroutine.
MonitorPollDies(err) ==
    /\ monPc = "poll"
    /\ IF err
          THEN /\ monPc' = "dead"
               /\ UNCHANGED <<mon_rest, mon_cur, last_ticket_set,
                              cooldown_until, closeNotified, accesses>>
          ELSE MonitorLoop([k \in 1..Len(deals) |-> k])
    /\ UNCHANGED <<now, open_positions, trade_counter, newsVars, tasks,
                   brokerVars, closeLogged, obsVars, apiVars, openLogged,
                   fnVars>>

\* One poll: history_deals_get, which may raise, then the loop.
MonitorPoll(err) ==
    /\ monPc = "poll"
    /\ IF err
          THEN /\ monPc' = "sleep10"
               /\ UNCHANGED <<mon_rest, mon_cur, last_ticket_set,
                              cooldown_until, closeNotified, accesses>>
          ELSE MonitorLoop([k \in 1..Len(deals) |-> k])
    /\ UNCHANGED <<now, open_positions, trade_counter, newsVars, tasks,
                   brokerVars, closeLogged, obsVars, apiVars, openLogged,
                   fnVars>>

\* The notification returned: log_trade_result, then the loop goes on.
MonitorResume ==
    /\ monPc = "notify"
    /\ closeLogged' = Bump(closeLogged, mon_cur)
    /\ MonitorLoop(mon_rest)
    /\ UNCHANGED <<now, open_positions, trade_counter, newsVars, tasks,
                   brokerVars, obsVars, apiVars, openLogged, fnVars>>

\* asyncio.sleep(5) at the end of the try block is over.
MonitorWake5 ==
    /\ monPc = "sleep5"
    /\ monPc' = "sleep10"
    /\ UNCHANGED <<now, guardVars, newsVars, tasks, brokerVars, mon_rest,
                   mon_cur, last_ticket_set, closeNotified, closeLogged,
                   obsVars, apiVars, traceVars, fnVars>>

\* asyncio.sleep(10) after the try statement is over.
MonitorWake10 ==
    /\ monPc = "sleep10"
    /\ monPc' = "poll"
    /\ UNCHANGED <<now, guardVars, newsVars, tasks, brokerVars, mon_rest,
                   mon_cur, last_ticket_set, closeNotified, closeLogged,
                   obsVars, apiVars, traceVars, fnVars>>

\* ------------------------------------------------------ specifications
Next ==
    \/ Tick
    \/ \E n \in NewsItems : PollNews(n)
    \/ \E sig \in Signals : SignalReturn(sig)
    \/ ProcessNewsRaises
    \/ \E t \in Tasks : ExecStart(t)
    \/ \E t \in Tasks : ExecResume(t)
    \/ \E s \in Symbols, p \in Profits : BrokerClose(s, p)
    \/ \E err \in BOOLEAN : MonitorPoll(err)
    \/ MonitorResume
    \/ MonitorWake5
    \/ MonitorWake10

Spec == Init /\ [][Next]_vars

\* The execution pipeline alone on one day with a feed of one item more
\* than the daily cap: the poller and the execute_trade tasks, without the
\* monitor and with the clock at the liquidity hour.
InitCap == InitAt(MorningStart + TickStep, MAX_TRADES_PER_DAY + 1, {None})

\* The feed publishes accepted items and every signal is a trade signal
\* for one symbol.
CapNews == {n \in NewsItems : FilterReason(n) = "accept" /\ n.type = ""}
CapSignals == {sig \in Signals :
                 sig.action \in TradeActions /\ sig.symbol = "EURUSD"}

NextCap ==
    \/ \E n \in CapNews : PollNews(n)
    \/ \E sig \in CapSignals : SignalReturn(sig)
    \/ \E t \in Tasks : ExecStart(t)
    \/ \E t \in Tasks : ExecResume(t)

SpecCap == InitCap /\ [][NextCap]_vars

\* The event loop resumes a task whose awaited notification has returned
\* (send_telegram_message returns or catches its own failure).
FairSpec == Spec /\ \A t \in Tasks : WF_vars(ExecResume(t))

\* The event loop resumes the monitor when its sleep or its awaited
\* notification is over, and a poll of the history returns or raises.
MonitorStep ==
    \/ \E err \in BOOLEAN : MonitorPoll(err)
    \/ MonitorResume
    \/ MonitorWake5
    \/ MonitorWake10

FairSpecMonitor == Spec /\ WF_vars(MonitorStep)

\* ------------------------------------------- the guard functions alone
\* can_trade and register_trade called directly, around midnight, with or
\* without a cooldown that ends at midnight.
CanTradeCall(s) ==
    /\ LET c == can_trade(trade_counter, cooldown_until, now)
       IN  /\ trade_counter' = c.counter
           /\ cooldown_until' = c.cooldown
           /\ ct_ret' = [date |-> Date(now), symbol |-> s,
                         regs |-> regs[Date(now)],
                         cool |-> cooldown_until # None /\ now < cooldown_until,
                         ret |-> c.ret]
    /\ accesses' = accesses \cup CanTradeAccesses
    /\ UNCHANGED <<now, open_positions, newsVars, tasks, brokerVars, monVars,
                   obsVars, regs, openLogged, fnVars>>

RegisterTradeCall ==
    /\ regs[Date(now)] <= MAX_TRADES_PER_DAY
    /\ trade_counter' = register_trade(trade_counter, now)
    /\ regs' = [regs EXCEPT ![Date(now)] = @ + 1]
    /\ accesses' = accesses \cup RegisterTradeAccesses
    /\ UNCHANGED <<now, open_positions, cooldown_until, newsVars, tasks,
                   brokerVars, monVars, obsVars, ct_ret, openLogged, fnVars>>

InitGuard == InitAt(EveningStart, 0, {None, EveningStart + COOLDOWN_AFTER_LOSS})

NextGuard ==
    \/ Tick
    \/ \E s \in Symbols : CanTradeCall(s)
    \/ RegisterTradeCall

SpecGuard == InitGuard /\ [][NextGuard]_vars

\* ------------------------------------------------------------ strings
\* A Python string is the sequence of its characters.
LowerLetters ==
    <<"a", "b", "c", "d", "e", "f", "g", "h", "i", "j", "k", "l", "m",
      "n", "o", "p", "q", "r", "s", "t", "u", "v", "w", "x", "y", "z">>
UpperLetters ==
    <<"A", "B", "C", "D", "E", "F", "G", "H", "I", "J", "K", "L", "M",
      "N", "O", "P", "Q", "R", "S", "T", "U", "V", "W", "X", "Y", "Z">>
LetterIndex(c, letters) == {i \in DOMAIN letters : letters[i] = c}
\* str.lower() and str.upper().
LowerChar(c) ==
    IF LetterIndex(c, UpperLetters) = {} THEN c
    ELSE LowerLetters[CHOOSE i \in LetterIndex(c, UpperLetters) : TRUE]
UpperChar(c) ==
    IF LetterIndex(c, LowerLetters) = {} THEN c
    ELSE UpperLetters[CHOOSE i \in LetterIndex(c, LowerLetters) : TRUE]
Lower(text) == [i \in DOMAIN text |-> LowerChar(text[i])]
Upper(text) == [i \in DOMAIN text |-> UpperChar(text[i])]
\* The expression  kw in text.
Contains(text, kw) ==
    \E i \in 0..(Len(text) - Len(kw)) : SubSeq(text, i + 1, i + Len(kw)) = kw
RECURSIVE Str(_)
\* The characters as one string value.
Str(text) == IF text = <<>> THEN "" ELSE Head(text) \o Str(Tail(text))
\* dict.get(key, default).
Get(d, key, default) == IF key \in DOMAIN d THEN d[key] ELSE default

\* ------------------------------------------------ the news filter alone
NEWS_BLACKLIST ==
    {<<"r", "u", "m", "o", "r">>,
     <<"s", "p", "e", "c", "u", "l", "a", "t", "i", "o", "n">>,
     <<"u", "n", "c", "o", "n", "f", "i", "r", "m", "e", "d">>,
     <<"m", "i", "n", "o", "r">>,
     <<"r", "e", "c", "a", "l", "l">>,
     <<"d", "i", "v", "i", "d", "e", "n", "d">>,
     <<"b", "u", "y", "b", "a", "c", "k">>}
\* The whitelist keywords that occur in the titles of the model.
NEWS_WHITELIST ==
    {<<"g", "d", "p">>,
     <<"w", "a", "r">>,
     <<"I", "S", "M">>,
     <<"r", "e", "c", "a", "l", "l">>}

\* The words of the titles: "Software" holds the keyword "war", "ISM" is
\* on the whitelist in upper case, "recall" is on both lists.
TitleWords ==
    {<<"G", "D", "P">>,
     <<"R", "u", "m", "o", "r">>,
     <<"S", "o", "f", "t", "w", "a", "r", "e">>,
     <<"I", "S", "M">>,
     <<"r", "e", "c", "a", "l", "l">>,
     <<"w", "e", "a", "t", "h", "e", "r">>}
Titles ==
    {<<>>} \cup TitleWords
    \cup {v \o <<" ">> \o w : v \in TitleWords, w \in TitleWords}
Importances == 1..3
NewsTypes ==
    {<<>>,
     <<"e", "c", "o", "n", "o", "m", "i", "c">>,
     <<"E", "c", "o", "n", "o", "m", "i", "c">>,
     <<"S", "p", "o", "r", "t", "s">>}
\* The item as the feed delivers it; a key may be missing.
NewsData ==
    [title : Titles, importance : Importances, type : NewsTypes]
    \cup [title : Titles]
    \cup [importance : Importances, type : NewsTypes]

\* What the filter reads off the item.
Features(d) ==
    LET title == Lower(Get(d, "title", <<>>))
    IN  [bl |-> \E bad \in NEWS_BLACKLIST : Contains(title, bad),
         wl |-> \E good \in NEWS_WHITELIST : Contains(title, good),
         importance |-> Get(d, "importance", 1),
         type |-> Str(Lower(Get(d, "type", <<>>)))]

\* The arguments of the one log_news call: filtered and reason.
FilterLog(d) ==
    LET n == Features(d)
        r == FilterReason(n)
    IN  [filtered |-> r # "accept",
         reason |-> IF r = "impact" THEN "impact=" \o ToString(n.importance)
                    ELSE IF r = "type" THEN "type=" \o n.type
                    ELSE IF r = "accept" THEN "None"
                    ELSE r]

\* process_news_item up to its log_news call.
FilterCall ==
    /\ news_call.pc = "ready"
    /\ news_call' = [pc |-> "done", data |-> news_call.data,
                     log |-> FilterLog(news_call.data)]
    /\ UNCHANGED <<now, guardVars, newsVars, tasks, brokerVars, monVars,
                   obsVars, apiVars, traceVars, run, size_call>>

InitFilter ==
    /\ InitCore(MorningStart, 0, {None}, {<<>>})
    /\ news_call \in {[pc |-> "ready", data |-> d] : d \in NewsData}
    /\ run = NoRun
    /\ size_call = NoSizeCall

SpecFilter == InitFilter /\ [][FilterCall]_vars

\* --------------------------------------------- get_trade_signal alone
TerminalStatuses == {"completed", "failed", "cancelled"}
PendingStatuses == {"queued", "in_progress", "expired"}
SIGNAL_ACTIONS ==
    {<<"B", "U", "Y">>,
     <<"S", "E", "L", "L">>,
     <<"S", "K", "I", "P">>}

\* A response is the sequence of its lines, a line the sequence of its
\* whitespace-separated tokens, a token the sequence of its characters.
Blank == <<>>
ActionTokens ==
    {<<"B", "U", "Y">>,
     <<"b", "u", "y">>,
     <<"S", "e", "l", "l">>,
     <<"S", "K", "I", "P">>,
     <<"H", "O", "L", "D">>}
SymbolTokens ==
    {<<"E", "U", "R", "U", "S", "D">>,
     <<"e", "u", "r", "/", "u", "s", "d">>,
     <<"E", "U", "R", "-", "U", "S", "D">>}
ReasonLine == <<<<"R", "a", "t", "e">>, <<"c", "u", "t">>>>
FirstLines ==
    {Blank, <<<<"B", "U", "Y">>>>, <<<<"E", "U", "R", "U", "S", "D">>, <<"B", "U", "Y">>>>,
     <<<<"B", "U", "Y">>, <<"E", "U", "R", "U", "S", "D">>, <<"n", "o", "w">>>>}
    \cup {<<a, sy>> : a \in ActionTokens, sy \in SymbolTokens}
Responses ==
    {pre \o <<first>> \o rest :
        pre \in {<<>>, <<Blank>>},
        first \in FirstLines,
        rest \in {<<>>, <<Blank>>, <<ReasonLine>>, <<Blank, ReasonLine>>}}

RECURSIVE LStrip(_)
LStrip(lines) ==
    IF lines # <<>> /\ Head(lines) = Blank THEN LStrip(Tail(lines)) ELSE lines
RECURSIVE RStrip(_)
RStrip(lines) ==
    IF lines # <<>> /\ lines[Len(lines)] = Blank
    THEN RStrip(SubSeq(lines, 1, Len(lines) - 1)) ELSE lines
\* response.strip().split('\n'): never the empty list.
StripLines(response) ==
    LET lines == RStrip(LStrip(response))
    IN  IF lines = <<>> THEN <<Blank>> ELSE lines
\* lines[0].strip().upper().split()
FirstLineParts(lines) == [i \in DOMAIN lines[1] |-> Upper(lines[1][i])]
\* symbol.replace("/", "")
RemoveSlash(token) == SelectSeq(token, LAMBDA c : c # "/")
\* The reason returned for a response without a second line.
NoReasonGiven == <<<<"(placeholder)">>>>

ValidFirstLineAnyAction(parts) == Len(parts) = 2

ValidFirstLine(parts) == Len(parts) = 2 /\ parts[1] \in SIGNAL_ACTIONS

\* The parsing of the response of a completed run (lines 227-243).
ParseSignal(response) ==
    LET lines == StripLines(response)
        parts == FirstLineParts(lines)
    IN  IF ~ValidFirstLine(parts) THEN NoSignal
        ELSE [action |-> Str(parts[1]),
              symbol |-> Str(RemoveSlash(parts[2])),
              reason |-> IF Len(lines) > 1 THEN lines[2] ELSE NoReasonGiven]

TimedOutNever(elapsed) == FALSE

\* time.time() - start_time > 60
TimedOut(elapsed) == elapsed > RUN_TIMEOUT

\* The elapsed time matters only through the timeout test: it is counted
\* up to the first value a poll can reach past the timeout.
ElapsedCap == RUN_TIMEOUT + POLL_INTERVAL + MaxLag
RunStart == [pc |-> "loop", status |-> "queued", elapsed |-> 0,
             cancels |-> 0, raised |-> FALSE, fetched |-> FALSE,
             response |-> <<>>, ret |-> NoSignal]

\* One turn of the while loop: sleep(1), runs.retrieve (which answers st
\* after d seconds in all, or raises), the timeout test and runs.cancel.
RunPoll(d, st, err) ==
    /\ run.pc = "loop"
    /\ run.status \notin TerminalStatuses
    /\ LET e == IF run.elapsed + d > ElapsedCap THEN ElapsedCap
                ELSE run.elapsed + d
       IN  run' =
             IF err
             THEN [run EXCEPT !.pc = "done", !.raised = TRUE, !.elapsed = e]
             ELSE IF TimedOut(e)
             THEN [run EXCEPT !.pc = "done", !.status = st, !.elapsed = e,
                              !.cancels = @ + 1]
             ELSE [run EXCEPT !.status = st, !.elapsed = e]
    /\ UNCHANGED <<now, guardVars, newsVars, tasks, brokerVars, monVars,
                   obsVars, apiVars, traceVars, news_call, size_call>>

\* The loop ended on a terminal status: the response of a completed run
\* is fetched (messages.list, which may raise) and parsed.
RunFinish(response, err) ==
    /\ run.pc = "loop"
    /\ run.status \in TerminalStatuses
    /\ run' =
          IF run.status # "completed" THEN [run EXCEPT !.pc = "done"]
          ELSE IF err THEN [run EXCEPT !.pc = "done", !.raised = TRUE]
          ELSE [run EXCEPT !.pc = "done", !.fetched = TRUE,
                           !.response = response,
                           !.ret = ParseSignal(response)]
    /\ UNCHANGED <<now, guardVars, newsVars, tasks, brokerVars, monVars,
                   obsVars, apiVars, traceVars, news_call, size_call>>

InitSignal ==
    /\ InitCore(MorningStart, 0, {None}, {<<>>})
    /\ news_call = NoNewsCall
    /\ run = RunStart
    /\ size_call = NoSizeCall

NextSignal ==
    \/ \E d \in POLL_INTERVAL..(POLL_INTERVAL + MaxLag),
          st \in TerminalStatuses \cup PendingStatuses, err \in BOOLEAN :
          RunPoll(d, st, err)
    \/ \E response \in Responses, err \in BOOLEAN : RunFinish(response, err)

SpecSignal == InitSignal /\ [][NextSignal]_vars

\* Every awaited call of the OpenAI client returns or raises.
FairSpecSignal == SpecSignal /\ WF_vars(NextSignal)

\* -------------------------------------- calculate_position_size alone
SizeCall ==
    /\ size_call.pc = "ready"
    /\ size_call' = [pc |-> "done", args |-> size_call.args,
                     ret |-> calculate_position_size(size_call.args)]
    /\ UNCHANGED <<now, guardVars, newsVars, tasks, brokerVars, monVars,
                   obsVars, apiVars, traceVars, news_call, run>>

InitSize ==
    /\ InitCore(MorningStart, 0, {None}, {<<>>})
    /\ news_call = NoNewsCall
    /\ run = NoRun
    /\ size_call \in {[pc |-> "ready", args |-> a] : a \in SizeInputs}

SpecSize == InitSize /\ [][SizeCall]_vars

\* --------------------------------- the monitor under an adjusted clock
\* datetime.utcnow() reads the wall clock, which the system may set back.
ClockBack ==
    /\ now - TickStep \in Clock
    /\ now' = now - TickStep
    /\ UNCHANGED <<guardVars, newsVars, tasks, brokerVars, monVars,
                   obsVars, apiVars, traceVars, fnVars>>

\* The closing deals of the last two days that the broker's history holds
\* when the process starts.
ClosingDeals == {[entry |-> 1, profit |-> p] : p \in Profits}
Histories == UNION {[1..k -> ClosingDeals] : k \in 0..MaxDeals}

InitSkew == InitWith(MorningStart + TickStep, 0, {None}, Histories)

NextSkew ==
    \/ Tick
    \/ ClockBack
    \/ \E err \in BOOLEAN : MonitorPoll(err)
    \/ MonitorResume
    \/ MonitorWake5
    \/ MonitorWake10

SpecSkew == InitSkew /\ [][NextSkew]_vars

\* =============================================================== claims
Holders(s) == {t \in Tasks : Holding(t) /\ tasks[t].symbol = s}

\* C1: for every symbol at most one execute_trade task at a time holds the
\* symbol's membership in open_positions, and an attempt that starts for a
\* symbol while another attempt for it is pending is rejected as a
\* duplicate: it ends at once, submits no order and leaves the set alone.
C1_MutualExclusion ==
    /\ [](\A s \in Symbols :
            /\ Cardinality(Holders(s)) <= 1
            /\ Holders(s) # {} => s \in open_positions)
    /\ [][\A t \in Tasks :
            (/\ tasks[t].pc = "created"
             /\ tasks'[t].pc # "created"
             /\ Holders(tasks[t].symbol) # {})
            => (/\ tasks'[t].pc = "idle"
                /\ dup_rejected' = dup_rejected + 1
                /\ orders_sent' = orders_sent
                /\ open_positions' = open_positions)]_vars

\* A duplicate was rejected and the attempt it ran into is still pending.
C1_Witness ==
    /\ dup_rejected > 0
    /\ \E s \in Symbols : Cardinality(Holders(s)) = 1 /\ s \in open_positions

\* C2: the engine never has two open positions on one symbol.
C2_OnePositionPerSymbol == \A s \in Symbols : positions[s] <= 1

\* C3: a symbol is in open_positions exactly while an attempt for it is
\* suspended inside the try block, so every exit path has removed it, and
\* every membership is eventually released.
C3_Released ==
    /\ [](open_positions = {tasks[t].symbol : t \in {u \in Tasks : Holding(u)}})
    /\ \A s \in Symbols : (s \in open_positions) ~> (s \notin open_positions)

\* Attempts that submitted orders have ended and hold nothing.
C3_Witness ==
    /\ orders_sent[Date(now)] = MaxNews
    /\ \A t \in Tasks : tasks[t].pc = "idle"
    /\ open_positions = {}

\* C4: an attempt that called order_send passed the duplicate test, can_trade
\* and check_market_conditions in that attempt.
C4_GatedOrder ==
    \A t \in Tasks :
        tasks[t].sent => tasks[t].acq /\ tasks[t].ct /\ tasks[t].mc

C4_Witness == \E t \in Tasks : tasks[t].sent /\ tasks[t].path = "send_done"

\* C5: can_trade returns false once MAX_TRADES_PER_DAY register_trade calls
\* were made on the date of the call, returns true below the cap when no
\* cooldown is active, and the counter of a date equals the register_trade
\* calls of that date until a call observes a later date.
C5_DailyCap ==
    /\ (ct_ret.date # None /\ ct_ret.regs >= MAX_TRADES_PER_DAY) => ~ct_ret.ret
    /\ (ct_ret.date # None /\ ct_ret.regs < MAX_TRADES_PER_DAY /\ ~ct_ret.cool)
          => ct_ret.ret
    /\ \A d \in DOMAIN trade_counter :
          d <= Date(now) /\ trade_counter[d] = regs[d]

\* After the cap was reached on day 0, can_trade on day 1 returned true.
C5_Witness ==
    /\ regs[0] >= MAX_TRADES_PER_DAY
    /\ ct_ret.date = 1
    /\ ct_ret.ret

\* C6: the orders submitted on one UTC date never exceed MAX_TRADES_PER_DAY.
C6_DailyOrderCap == \A d \in Dates : orders_sent[d] <= MAX_TRADES_PER_DAY

\* C7: in the step in which an attempt calls order_send, cooldown_until is
\* unset or not later than the clock.
C7_NoOrderInCooldown ==
    [][\A t \in Tasks :
          (tasks[t].pc = "created" /\ tasks'[t].sent)
          => (cooldown_until = None \/ now >= cooldown_until)]_vars

\* A second order was submitted and the cooldown of a loss has expired.
C7_Witness ==
    /\ \E t \in Tasks : tasks[t].sent
    /\ orders_sent[Date(now)] >= 2
    /\ cooldown_until # None
    /\ now >= cooldown_until

C9_CooldownOnLoss ==
    [][(mon_cur' # 0 /\ mon_cur' # mon_cur)
          => cooldown_until' =
                IF deals[mon_cur'].profit < 0
                THEN now + COOLDOWN_AFTER_LOSS ELSE cooldown_until]_vars

C9_Witness ==
    /\ mon_cur # 0
    /\ deals[mon_cur].profit < 0
    /\ cooldown_until = now + COOLDOWN_AFTER_LOSS

\* C10: every closing deal is notified and recorded at most once, a deal
\* the monitor has seen was notified once and is recorded once when its
\* notification has returned, and no other deal is notified or recorded.
C10_ProcessedOnce ==
    \A k \in 1..Len(deals) :
        /\ Count(closeNotified, k) <= 1
        /\ Count(closeLogged, k) <= 1
        /\ k \in last_ticket_set
              => /\ IsClosing(deals[k])
                 /\ Count(closeNotified, k) = 1
                 /\ Count(closeLogged, k) = IF mon_cur = k THEN 0 ELSE 1
        /\ k \notin last_ticket_set
              => Count(closeNotified, k) = 0 /\ Count(closeLogged, k) = 0

\* A processed closing deal is in the history the next poll will fetch.
C10_Witness ==
    /\ monPc = "poll"
    /\ \E k \in 1..Len(deals) : Count(closeLogged, k) = 1

\* C11: the decision the filter logs is the first matching rule, in this
\* order: a blacklist keyword in the lowered title rejects as 'blacklist';
\* no whitelist keyword rejects as 'not in whitelist'; an importance below
\* MIN_NEWS_IMPORTANCE rejects as 'impact=<n>'; a type that is present and,
\* lowered, is not an allowed type rejects as 'type=<t>'; otherwise the
\* item is accepted.
C11_FirstMatch ==
    news_call.pc = "done" =>
        LET d == news_call.data
            title == Lower(Get(d, "title", <<>>))
            importance == Get(d, "importance", 1)
            type == Str(Lower(Get(d, "type", <<>>)))
        IN  news_call.log =
              IF \E kw \in NEWS_BLACKLIST : Contains(title, kw)
              THEN [filtered |-> TRUE, reason |-> "blacklist"]
              ELSE IF \A kw \in NEWS_WHITELIST : ~Contains(title, kw)
              THEN [filtered |-> TRUE, reason |-> "not in whitelist"]
              ELSE IF importance < MIN_NEWS_IMPORTANCE
              THEN [filtered |-> TRUE,
                    reason |-> "impact=" \o ToString(importance)]
              ELSE IF type # "" /\ type \notin IMPORTANT_NEWS_TYPES
              THEN [filtered |-> TRUE, reason |-> "type=" \o type]
              ELSE [filtered |-> FALSE, reason |-> "None"]

\* A title of high importance and allowed type that holds a keyword of
\* each list was rejected as 'blacklist'.
C11_Witness ==
    /\ news_call.pc = "done"
    /\ news_call.data = [title |-> <<"R", "u", "m", "o", "r", " ", "G", "D", "P">>,
                         importance |-> 3,
                         type |-> <<"e", "c", "o", "n", "o", "m", "i", "c">>]
    /\ news_call.log = [filtered |-> TRUE, reason |-> "blacklist"]

\* The first line of the stripped response of the run, as its tokens.
C12_First == StripLines(run.response)[1]
C12_IsSignal ==
    /\ Len(C12_First) = 2
    /\ Upper(C12_First[1]) \in SIGNAL_ACTIONS
C12_Reason ==
    IF Len(StripLines(run.response)) > 1
    THEN StripLines(run.response)[2] ELSE NoReasonGiven
Separators == {"/", "-", "_", "."}

\* C12 as stated: a fetched response yields a signal exactly when its
\* first line is two tokens of which the first is, in any case, BUY, SELL
\* or SKIP, and the signal's symbol is the second token with every
\* separator character stripped.
C12_AnySeparatorStripped ==
    (run.pc = "done" /\ run.fetched) =>
        /\ (run.ret # NoSignal) <=> C12_IsSignal
        /\ C12_IsSignal =>
              run.ret = [action |-> Str(Upper(C12_First[1])),
                         symbol |-> Str(SelectSeq(Upper(C12_First[2]),
                                          LAMBDA c : c \notin Separators)),
                         reason |-> C12_Reason]

\* C12: a fetched response yields a signal exactly when the first line of
\* the stripped response is two tokens of which the first is, in any case,
\* BUY, SELL or SKIP; the signal is the action in upper case, the second
\* token in upper case with every "/" removed and no other character
\* removed, and the second line, or the placeholder when there is none.
C12_SlashStripped ==
    (run.pc = "done" /\ run.fetched) =>
        /\ (run.ret # NoSignal) <=> C12_IsSignal
        /\ C12_IsSignal =>
              run.ret = [action |-> Str(Upper(C12_First[1])),
                         symbol |-> Str(SelectSeq(Upper(C12_First[2]),
                                          LAMBDA c : c # "/")),
                         reason |-> C12_Reason]

\* "buy eur/usd" on one line was parsed to BUY EURUSD with the placeholder.
C12_Witness ==
    /\ run.pc = "done"
    /\ run.fetched
    /\ run.response = <<<<<<"b", "u", "y">>,
                          <<"e", "u", "r", "/", "u", "s", "d">>>>>>
    /\ run.ret = [action |-> "BUY", symbol |-> "EURUSD",
                  reason |-> NoReasonGiven]

\* C13: get_trade_signal terminates; when its polls answered no terminal
\* status up to the one past the 60-second bound, it has returned no
\* signal and issued exactly one cancellation, and it never issues two.
C13_Timeout ==
    /\ [](run.cancels <= 1)
    /\ []((run.pc = "done" /\ ~run.raised
             /\ run.status \notin TerminalStatuses)
          => (/\ run.ret = NoSignal
              /\ run.cancels = 1
              /\ run.elapsed > RUN_TIMEOUT))
    /\ <>(run.pc = "done")

\* The run was still pending at the poll past the bound and was cancelled.
C13_Witness ==
    /\ run.pc = "done"
    /\ run.status \in PendingStatuses
    /\ run.elapsed > RUN_TIMEOUT
    /\ run.cancels = 1
    /\ run.ret = NoSignal

\* C14 as stated: a returned volume, for volume_min <= volume_max, lies in
\* [volume_min, volume_max] and is a multiple of volume_step.
C14_InRangeAndAligned ==
    (/\ size_call.pc = "done"
     /\ size_call.ret.kind = "volume"
     /\ size_call.args.volume_min <= size_call.args.volume_max)
    => /\ size_call.ret.volume >= size_call.args.volume_min
       /\ size_call.ret.volume <= size_call.args.volume_max
       /\ size_call.ret.volume % size_call.args.volume_step = 0

\* C14: a returned volume, for volume_min <= volume_max, lies in
\* [volume_min, volume_max]; it is a multiple of volume_step when it was
\* not clamped or when the limit it was clamped to is one.
C14_InRange ==
    (/\ size_call.pc = "done"
     /\ size_call.ret.kind = "volume"
     /\ size_call.args.volume_min <= size_call.args.volume_max)
    => LET a == size_call.args
           v == size_call.ret.volume
       IN  /\ v >= a.volume_min
           /\ v <= a.volume_max
           /\ (a.volume_min % a.volume_step = 0
                 /\ a.volume_max % a.volume_step = 0)
                 => v % a.volume_step = 0
           /\ (v # a.volume_min /\ v # a.volume_max)
                 => v % a.volume_step = 0

\* The raw volume 25 with step 2 was rounded to 24, inside the limits.
C14_Witness ==
    /\ size_call.pc = "done"
    /\ size_call.args = [NominalSize EXCEPT !.volume_step = 2, !.volume_min = 2]
    /\ size_call.ret = [kind |-> "volume", volume |-> 24]

\* C15: every access of execute_trade, can_trade, register_trade and the
\* monitor to open_positions, trade_counter or cooldown_until is made while
\* open_positions_lock is held.
C15_AllUnderLock == \A a \in accesses : a.locked

\* C16: while get_trade_signal is awaited for an accepted item and the feed
\* has a newer item, the poller can fetch and process that item.
C16_IngestionNotBlocked ==
    (newsPc = "signal" /\ feed > 0) => ENABLED (\E n \in NewsItems : PollNews(n))

\* The attempt of task t ends in this step.
AttemptEnds(t) == tasks[t].pc \in {"created", "await"} /\ tasks'[t].pc = "idle"

\* C17: every execute_trade attempt, however it ends, appends exactly one
\* record to the trade log.
C17_OneRecordPerAttempt ==
    [][\A t \in Tasks : AttemptEnds(t) => openLogged' = openLogged + 1]_vars

\* C18: an attempt appends one open record when the broker's result had the
\* success status and none otherwise; on a missing result or another
\* status the attempt is suspended in its failure notification and ends
\* without a record; no other step appends an open record.
C18_OpenRecordIffSuccess ==
    [][/\ \A t \in Tasks :
            /\ AttemptEnds(t) =>
                  openLogged' = openLogged
                     + IF tasks[t].path = "send_done" THEN 1 ELSE 0
            /\ (tasks[t].pc = "created"
                  /\ tasks'[t].path \in {"send_none", "send_rejected"})
               => (tasks'[t].pc = "await" /\ openLogged' = openLogged)
       /\ openLogged' # openLogged => \E t \in Tasks : AttemptEnds(t)]_vars

\* Two orders were submitted, one succeeded and was recorded, the other
\* was not.
C18_Witness ==
    /\ orders_sent[Date(now)] = 2
    /\ \A t \in Tasks : tasks[t].pc = "idle"
    /\ Len(deals) >= 1
    /\ openLogged = 1

\* C19: when the monitor processes a losing deal while cooldown_until holds
\* a timestamp later than now + COOLDOWN_AFTER_LOSS, cooldown_until keeps
\* that timestamp.
C19_TakesMax ==
    [][(/\ mon_cur' # 0
        /\ mon_cur' # mon_cur
        /\ deals[mon_cur'].profit < 0
        /\ cooldown_until # None
        /\ now + COOLDOWN_AFTER_LOSS < cooldown_until)
       => cooldown_until' = cooldown_until]_vars

\* C20: in the step in which an attempt calls calculate_position_size, the
\* global RISK_PERCENT it reads is the percent selected by the importance
\* of the news item the attempt was dispatched for, 10 for importance 3
\* and 5 for importance 2.
C20_RiskOfOwnNews ==
    [][\A t \in Tasks :
          (tasks[t].pc = "created" /\ tasks'[t].path \in SizedPaths)
          => /\ RISK_PERCENT = tasks[t].tier
             /\ tasks[t].tier \in {5, 10}]_vars

\* An attempt that was sized and sent its order is still suspended while
\* the next item, of medium importance, has set RISK_PERCENT to 5 and waits
\* for its signal.
C20_Witness ==
    /\ \E t \in Tasks : tasks[t].sent
    /\ newsPc = "signal"
    /\ feed = MaxNews - 2
    /\ RISK_PERCENT = 5

\* ------------------------------------- attempts on a zero sizing input
\* The execution pipeline from the liquidity hour on when the terminal
\* answers every attempt with one sizing input at zero: the tick size, the point,
\* the tick value, or an ATR of zero (a stop distance of zero).
ZeroEnv ==
    {[NominalEnv EXCEPT ![f] = 0] :
       f \in {"tick_size", "point", "tick_value", "sl_pips"}}
TradeSignals == {sig \in Signals : sig.action \in TradeActions}

InitZero == InitAt(MorningStart + TickStep, MaxNews, {None})

NextZero ==
    \/ Tick
    \/ \E n \in NewsItems : PollNews(n)
    \/ \E sig \in TradeSignals : SignalReturn(sig)
    \/ \E t \in Tasks, env \in ZeroEnv : ExecStartWith(t, env)
    \/ \E t \in Tasks : ExecResume(t)

SpecZero == InitZero /\ [][NextZero]_vars

\* C21: when the tick size, the point, the value per unit move or the stop
\* distance is zero, no volume is substituted: the attempt submits no order
\* and opens no position, it goes to the failure notification (no volume,
\* or the caught ZeroDivisionError), and when it ends the symbol is out of
\* open_positions.
C21_ZeroDivisorIsHardFailure ==
    [][/\ orders_sent' = orders_sent
       /\ positions' = positions
       /\ \A t \in Tasks :
            /\ (tasks[t].pc = "created" /\ tasks'[t].pc = "await")
               => (/\ tasks'[t].path \in {"no_volume", "exception"}
                   /\ ~tasks'[t].sent)
            /\ (tasks[t].pc = "await" /\ tasks'[t].pc # "await")
               => tasks[t].symbol \notin open_positions']_vars

\* Attempts ran on a zero input and have all ended, the set is empty again.
C21_Witness ==
    /\ accesses # {}
    /\ feed = 0
    /\ \A t \in Tasks : tasks[t].pc = "idle"
    /\ open_positions = {}

\* --------------------------------------- attempts on missing market data
\* The same pipeline when the terminal has one piece of market data missing
\* in every attempt: the tick or the symbol information asked for by
\* check_market_conditions, or the symbol information, the ATR or the tick
\* asked for by execute_trade itself.
MissingEnv ==
    {[NominalEnv EXCEPT ![f] = FALSE] :
       f \in {"mcTick", "mcInfo", "info", "atr", "tick"}}

NextMissing ==
    \/ Tick
    \/ \E n \in NewsItems : PollNews(n)
    \/ \E sig \in TradeSignals : SignalReturn(sig)
    \/ \E t \in Tasks, env \in MissingEnv : ExecStartWith(t, env)
    \/ \E t \in Tasks : ExecResume(t)

SpecMissing == InitZero /\ [][NextMissing]_vars

\* The attempt that starts now is no duplicate, is admitted by the guard
\* and runs at or after the liquidity hour.
Admitted(t) ==
    /\ tasks[t].pc = "created"
    /\ Acquire(tasks[t].symbol, open_positions).ok
    /\ can_trade(trade_counter, cooldown_until, now).ret
    /\ Hour(now) >= MIN_LIQUIDITY_HOUR

\* C22: an attempt that finds the ATR, the tick or the symbol information
\* missing submits no order and goes to an operator notification (the
\* attempt is suspended in send_telegram_message before it ends).
C22_MissingDataNotified ==
    [][/\ orders_sent' = orders_sent
       /\ \A t \in Tasks :
            (Admitted(t) /\ tasks'[t] # tasks[t])
            => tasks'[t].pc = "await"]_vars

\* C23: after an error-free iteration the monitor sleeps 5 seconds and then
\* polls again: the sleep that ends the try block is the only wait between
\* the iteration and the next poll (the 10 second sleep is for an
\* iteration that raised).
C23_FiveSecondsAfterCleanPoll ==
    [][(monPc = "sleep5" /\ monPc' # "sleep5") => monPc' = "poll"]_vars

\* C24: an exception in a monitor iteration, in an execute_trade attempt or
\* in process_news_item stays in its task: the step that raises leaves the
\* other execution tasks, the poller and the monitor where they were, the
\* poller is ready for the next item after a raising process_news_item, and
\* the monitor polls again and again.
C24_ExceptionsContained ==
    /\ []<>(monPc = "poll")
    /\ [][/\ \A t \in Tasks :
               (tasks[t].pc = "created" /\ tasks'[t].pc = "await"
                  /\ tasks'[t].path = "exception")
               => (/\ \A u \in Tasks \ {t} : tasks'[u] = tasks[u]
                   /\ monPc' = monPc
                   /\ newsPc' = newsPc)
          /\ (monPc = "poll" /\ monPc' = "sleep10")
               => (tasks' = tasks /\ newsPc' = newsPc)
          /\ ProcessNewsRaises
               => (tasks' = tasks /\ monPc' = monPc /\ newsPc' = "idle")]_vars

\* An attempt is in the notification of its caught exception while another
\* attempt is pending, the monitor is at its poll and the poller is
\* between two items.
C24_Witness ==
    /\ \E t \in Tasks :
         /\ tasks[t].pc = "await" /\ tasks[t].path = "exception"
         /\ \E u \in Tasks \ {t} : tasks[u].pc = "await"
    /\ monPc = "poll"
    /\ newsPc = "idle"

\* --------------------------------------------- news without a trade signal
\* The poller and the monitor when get_trade_signal never returns a BUY or
\* a SELL: it returns None (timeout, failed or cancelled run, unparseable
\* response, service error) or a SKIP signal.
SkipSignals == Signals \ TradeSignals

\* The process starts with or without a cooldown in force; the broker's
\* history has no closing deal, so the monitor's polls find nothing.
InitSkip == InitAt(MorningStart, MaxNews,
                   {None, MorningStart + 2 * COOLDOWN_AFTER_LOSS})

NextSkip ==
    \/ Tick
    \/ \E n \in NewsItems : PollNews(n)
    \/ \E sig \in SkipSignals : SignalReturn(sig)
    \/ ProcessNewsRaises
    \/ \E err \in BOOLEAN : MonitorPoll(err)
    \/ MonitorWake5
    \/ MonitorWake10

SpecSkip == InitSkip /\ [][NextSkip]_vars

\* C25: without a BUY or SELL signal for an accepted news item no
\* execute_trade attempt is started (no task leaves idle), no order is
\* submitted, and open_positions, the trade counter and cooldown_until stay
\* as they are.
C25_NoAttemptWithoutTradeSignal ==
    /\ [](\A t \in Tasks : tasks[t] = IdleTask)
    /\ [][/\ orders_sent' = orders_sent
          /\ open_positions' = open_positions
          /\ trade_counter' = trade_counter
          /\ cooldown_until' = cooldown_until]_vars

\* Every item of the feed was taken, the last one accepted with importance
\* 2 and answered with SKIP or no signal; nothing was started.
C25_Witness ==
    /\ feed = 0
    /\ newsPc = "idle"
    /\ RISK_PERCENT = 5
    /\ \A t \in Tasks : tasks[t] = IdleTask
    /\ open_positions = {}
    /\ trade_counter = <<>>

\* C26: a call rejected as a duplicate leaves open_positions and the
\* attempt holding the symbol as they are, and a symbol leaves
\* open_positions only in a step in which the attempt holding it ends.
C26_DuplicateKeepsMembership ==
    [][/\ \A t \in Tasks :
            (/\ tasks[t].pc = "created"
             /\ tasks[t].symbol \in open_positions
             /\ tasks'[t].pc # "created")
            => (/\ open_positions' = open_positions
                /\ \A u \in Holders(tasks[t].symbol) : tasks'[u] = tasks[u])
       /\ \A s \in Symbols :
            (s \in open_positions /\ s \notin open_positions')
            => \E u \in Holders(s) : tasks'[u].pc = "idle"]_vars

\* The duplicate was rejected and has ended; the attempt it ran into is the
\* only task left and its symbol is still in the set.
C26_Witness ==
    /\ dup_rejected = 1
    /\ \E t \in Tasks :
         /\ Holding(t)
         /\ open_positions = {tasks[t].symbol}
         /\ \A u \in Tasks \ {t} : tasks[u].pc = "idle"

\* C27: a run whose poll answered completed is never dropped as a timeout:
\* get_trade_signal ends such a run by fetching its response, and the
\* cancellation is issued only for a run whose last polled status is not a
\* terminal one.
C27_CompletedNeverDiscarded ==
    /\ (run.pc = "done" /\ ~run.raised /\ run.status = "completed")
       => run.fetched
    /\ run.cancels > 0 => run.status \notin TerminalStatuses

====
